---------------------------- MODULE Spec2Model ----------------------------
(***************************************************************************)
(* A model of the job-listings scripts:                                    *)
(*   execution/scrape_linkedin.py, execution/scrape_monster.py             *)
(*       run_apify_actor, save_to_supabase, main   (ingestion)             *)
(*   execution/send_daily_emails.py                                        *)
(*       send_email, main                          (daily digest)          *)
(*                                                                         *)
(* Python values are modelled as records: None, and str as a tuple of      *)
(* one-character strings, so that slicing, split and f-string formatting   *)
(* are computed, not assumed.  A dict is a function whose DOMAIN is the    *)
(* set of keys that are present.                                           *)
(***************************************************************************)
EXTENDS Integers, Sequences, FiniteSets, TLC

(***************************************************************************)
(* Python values                                                           *)
(***************************************************************************)
None == [t |-> "None"]

S(chars) == [t |-> "str", s |-> chars]

EmptyStr == S(<< >>)

IsStr(v) == v.t = "str"

\* bool(v) for None and str
Truthy(v) == IsStr(v) /\ v.s # << >>

\* dict.get(key, default)
Get(d, key, default) == IF key \in DOMAIN d THEN d[key] ELSE default

\* Python's "a or b"
PyOr(a, b) == IF Truthy(a) THEN a ELSE b

\* str(v) as an f-string renders it
Format(v) == IF IsStr(v) THEN v.s ELSE <<"N", "o", "n", "e">>

\* a transform that keeps the whole string
KeepAll(chars, n) == chars

\* s[:n]
SliceTo(chars, n) == SubSeq(chars, 1, IF Len(chars) < n THEN Len(chars) ELSE n)

\* s.split('/')[-1]: the characters after the last '/'
RECURSIVE LastSegment(_)
LastSegment(chars) ==
    IF chars = << >> THEN << >>
    ELSE LET rest == LastSegment(Tail(chars))
         IN  IF \E i \in 1..Len(Tail(chars)) : Tail(chars)[i] = "/" THEN rest
             ELSE IF Head(chars) = "/" THEN Tail(chars)
             ELSE chars


(***************************************************************************)
(* Bounds of the model and constants of the program                        *)
(***************************************************************************)
\* titles given to one ingestion run
MaxTitles == 2
\* ingestion runs, and digest runs, in one behaviour
MaxRuns == 2
\* polls after which the runner has left the in-progress statuses, in the
\* specifications that are not about the polling ceiling
MaxPending == 1

\* max_wait = 300 and time.sleep(5) in run_apify_actor
max_wait == 300
poll_interval == 5
\* description[:5000]
DescriptionLimit == 5000

\* "Prefer" header of the upsert request
Prefer == "resolution=merge-duplicates"

\* string literals of the program and of the model's inputs
LinkedinPrefix == <<"l", "i", "n", "k", "e", "d", "i", "n", "_">>
MonsterPrefix == <<"m", "o", "n", "s", "t", "e", "r", "_">>

\* search titles of the model (a Data Engineer, a Product Manager)
TitleDE == S(<<"D", "E">>)
TitlePM == S(<<"P", "M">>)
Titles == {TitleDE, TitlePM}
\* a title with a character that is reserved in a URL (R&D)
TitleRD == S(<<"R", "&", "D">>)

(***************************************************************************)
(* The transform of save_to_supabase: raw listing -> row of the jobs table *)
(***************************************************************************)
\* scrape_linkedin.py: db_job
LinkedinDbJob(job) ==
    [ external_id |->
          S(LinkedinPrefix
              \o Format(Get(job, "jobId", Get(job, "id", EmptyStr)))),
      source |-> "linkedin",
      title |-> Get(job, "title", EmptyStr),
      company |-> Get(job, "company", EmptyStr),
      location |-> Get(job, "location", EmptyStr),
      description |->
          S(SliceTo(PyOr(Get(job, "description", EmptyStr), EmptyStr).s,
                    DescriptionLimit)),
      url |-> Get(job, "jobUrl", Get(job, "url", EmptyStr)),
      salary |-> Get(job, "salary", None),
      search_title |-> Get(job, "search_title", EmptyStr) ]

\* scrape_monster.py: the id falls through to jobUrl only when jobId and id
\* are falsy; .split is then called on whatever job.get('jobUrl', '') gave
MonsterNeedsUrl(job) ==
    ~Truthy(PyOr(Get(job, "jobId", None), Get(job, "id", None)))

\* AttributeError: 'NoneType' object has no attribute 'split'
MonsterRaises(job) ==
    MonsterNeedsUrl(job) /\ ~IsStr(Get(job, "jobUrl", EmptyStr))

MonsterJobId(job) ==
    IF MonsterNeedsUrl(job)
    THEN S(LastSegment(Get(job, "jobUrl", EmptyStr).s))
    ELSE PyOr(Get(job, "jobId", None), Get(job, "id", None))

\* scrape_monster.py: db_job
MonsterDbJob(job) ==
    [ external_id |-> S(MonsterPrefix \o Format(MonsterJobId(job))),
      source |-> "monster",
      title |-> Get(job, "jobTitle", Get(job, "title", EmptyStr)),
      company |-> Get(job, "companyName", Get(job, "company", EmptyStr)),
      location |-> Get(job, "location", EmptyStr),
      description |->
          S(SliceTo(PyOr(Get(job, "description", EmptyStr), EmptyStr).s,
                    DescriptionLimit)),
      url |-> Get(job, "jobUrl", Get(job, "url", EmptyStr)),
      salary |-> Get(job, "salary", None),
      search_title |-> Get(job, "search_title", EmptyStr) ]

\* whether building db_job raises for this source
TransformRaises(src, job) == src = "monster" /\ MonsterRaises(job)

Transform(src, job) ==
    IF src = "linkedin" THEN LinkedinDbJob(job) ELSE MonsterDbJob(job)


(***************************************************************************)
(* State                                                                   *)
(***************************************************************************)
VARIABLES
    env,              \* the environment variables that are set
    jobs_table,       \* store: rows of /rest/v1/jobs, in insertion order
    job_titles_table, \* store: rows of /rest/v1/job_titles
    email_logs,       \* store: rows of /rest/v1/email_logs
    script,           \* which script this process runs
    argv,             \* sys.argv[1:] of an ingestion run
    pc,               \* position of the process in its script
    exit_code,        \* -1 while the process runs
    runs,             \* invocations of the script so far
    job_titles,       \* main: job_titles
    ti,               \* run_apify_actor: index of the current title
    status,           \* run_apify_actor: status
    waited,           \* run_apify_actor: waited
    results,          \* run_apify_actor: results, then main's jobs
    si,               \* save_to_supabase: index of the current job
    saved_count,      \* save_to_supabase: saved_count
    db_job,           \* save_to_supabase: db_job of the last transform
    obs,              \* observations of the run (history, not program state)
    users,            \* digest main: users
    ui,               \* digest main: index of the current user
    titles,           \* digest main: titles
    sent_job_ids,     \* digest main: sent_job_ids
    all_jobs,         \* digest main: all_jobs
    new_jobs,         \* digest main: new_jobs
    li,               \* digest main: index of the job being logged
    emails_sent,      \* digest main: emails_sent
    no_jobs_emails,   \* digest main: no_jobs_emails
    errors,           \* digest main: errors (the user of each entry)
    dobs,             \* observations of the digest runs (history)
    peer              \* a second ingestion process on the same store

storeVars == <<jobs_table, job_titles_table, email_logs>>
ingestVars == <<argv, job_titles, ti, status, waited, results, si,
                saved_count, db_job, obs>>
digestVars == <<users, ui, titles, sent_job_ids, all_jobs, new_jobs, li,
                emails_sent, no_jobs_emails, errors, dobs>>

Credentials == {"APIFY_API_TOKEN", "SUPABASE_URL", "SUPABASE_KEY",
                "RESEND_API_KEY"}

Sources == {"linkedin", "monster"}

\* statuses the runner reports; the loop waits on RUNNING and READY
InProgress == {"RUNNING", "READY"}
RunStatuses == InProgress \cup {"SUCCEEDED", "FAILED"}

Users == {"u1", "u2"}

\* raw listings the runner returns in the model
RawA1 == ("jobId" :> S(<<"A", "1">>)) @@ ("title" :> S(<<"X">>))
             @@ ("company" :> S(<<"A", "c", "m", "e">>))
RawB2 == ("id" :> S(<<"B", "2">>)) @@ ("jobTitle" :> S(<<"X">>))
             @@ ("jobUrl" :> S(<<"m", "/", "B", "2">>))
RawNullUrl == ("jobUrl" :> None) @@ ("title" :> None)

Datasets == { <<RawA1, RawB2>>, <<RawNullUrl>> }

\* sequences over a set, up to a length
SeqsUpTo(set, n) == UNION { [1..k -> set] : k \in 0..n }

\* what a run has been seen to do so far
NoObs ==
    [ polls |-> 0,            \* status polls for the current title
      retrievals |-> 0,       \* dataset requests for the current title
      submitted |-> << >>,    \* titles submitted to the runner, in order
      raised |-> "",          \* the exception that ended the run, if any
      upsert |-> "",          \* the store's answer to the last upsert
      existed |-> FALSE,      \* whether that upsert's external_id was stored
      answers |-> 0,          \* upserts of this call the store answered
      counted |-> 0,          \* of them, answered 200 or 201
      skipped |-> 0,          \* of them, answered neither 200/201 nor 409
      rows_before |-> 0,      \* rows stored when save_to_supabase was called
      all_existed |-> TRUE,   \* every upsert of this call found its id stored
      changed |-> FALSE,      \* an upsert of this call changed the table
      ids |-> << >> ]         \* listings given an external_id, in order

\* the second process before it is started: its script, its position, and
\* the locals of its save_to_supabase with what its upserts were answered
NoPeer ==
    [ script |-> "", pc |-> "idle", exit_code |-> -1,
      results |-> << >>, si |-> 0, saved_count |-> 0,
      raised |-> "", upsert |-> "", answers |-> 0, counted |-> 0,
      skipped |-> 0 ]


(***************************************************************************)
(* The store's jobs collection, as the upsert request sees it              *)
(***************************************************************************)
HasExternalId(table, external_id) ==
    \E i \in 1..Len(table) : table[i].external_id = external_id

\* the row as the store keeps it: id is the primary key the store assigns,
\* scraped_at the insertion time; neither is part of the request
NewRow(table, job) ==
    [ id |-> Len(table) + 1,
      scraped_at |-> Len(table) + 1,
      external_id |-> job.external_id,
      search_title |-> job.search_title ]

\* merge: the columns of the request replace those of the stored row
Merged(table, job) ==
    [ i \in 1..Len(table) |->
        IF table[i].external_id = job.external_id
        THEN [table[i] EXCEPT !.search_title = job.search_title]
        ELSE table[i] ]

\* The answers the store can give to POST /rest/v1/jobs: a new external_id
\* is inserted (201); a stored one is merged (200 or 201) when the request
\* asks for resolution=merge-duplicates and the conflict is resolved on
\* external_id, and is refused (409) otherwise; any request may fail (500).
StoreUpsert(table, job, prefer) ==
    IF HasExternalId(table, job.external_id)
    THEN (IF prefer = "resolution=merge-duplicates"
          THEN { [status_code |-> c, table |-> Merged(table, job)] :
                    c \in {200, 201} }
          ELSE {})
         \cup { [status_code |-> c, table |-> table] : c \in {409, 500} }
    ELSE { [status_code |-> 201, table |-> Append(table, NewRow(table, job))],
           [status_code |-> 500, table |-> table] }

(***************************************************************************)
(* scrape_linkedin.py / scrape_monster.py                                  *)
(***************************************************************************)
HasStore == {"SUPABASE_URL", "SUPABASE_KEY"} \subseteq env

\* sys.exit(code), or an exception nobody catches (exit code 1)
Exit(code, what) ==
    /\ pc' = "exit"
    /\ exit_code' = code
    /\ obs' = [obs EXCEPT !.raised = what]

\* list(set(t['title'] for t in titles_data)): the distinct titles, in any order
DistinctTitleLists(table) ==
    LET set == { table[i].title : i \in 1..Len(table) }
    IN  { seq \in [1..Cardinality(set) -> set] :
            \A i, j \in 1..Cardinality(set) : seq[i] = seq[j] => i = j }

\* main: job titles from the command line
MainArgs ==
    /\ pc = "main" /\ script \in Sources
    /\ argv # << >>
    /\ job_titles' = argv
    /\ pc' = "scrape"
    /\ UNCHANGED <<digestVars, env, peer, storeVars, script, argv, exit_code, runs, ti, status,
                   waited, results, si, saved_count, db_job, obs>>

\* main: no titles given, fetch them from the store
MainFetchTitles ==
    /\ pc = "main" /\ script \in Sources
    /\ argv = << >>
    /\ \/ /\ ~HasStore
          /\ Exit(1, "")
          /\ UNCHANGED job_titles
       \/ /\ HasStore
          \* requests.get raises, or raise_for_status does
          /\ Exit(1, "titles request")
          /\ UNCHANGED job_titles
       \/ /\ HasStore
          /\ \E fetched \in DistinctTitleLists(job_titles_table) :
                /\ job_titles' = fetched
                /\ IF fetched = << >>
                   THEN Exit(0, "")
                   ELSE pc' = "scrape" /\ UNCHANGED <<exit_code, obs>>
    /\ UNCHANGED <<digestVars, env, peer, storeVars, script, argv, runs, ti, status, waited,
                   results, si, saved_count, db_job>>

\* run_apify_actor: the token check and results = []
ActorStart ==
    /\ pc = "scrape"
    /\ IF "APIFY_API_TOKEN" \notin env
       THEN Exit(1, "ValueError") /\ UNCHANGED <<results, ti>>
       ELSE /\ results' = << >>
            /\ ti' = 1
            /\ pc' = "submit"
            /\ UNCHANGED <<exit_code, obs>>
    /\ UNCHANGED <<digestVars, env, peer, storeVars, script, argv, runs, job_titles, status,
                   waited, si, saved_count, db_job>>

\* a request whose error answers go unnoticed
NeverRaisesForStatus(ok) == FALSE

\* response.raise_for_status(): raises for an answer that is an error
RaiseForStatus(ok) == ~ok

\* run_apify_actor: start the actor run for the current title
Submit ==
    /\ pc = "submit" /\ ti <= Len(job_titles)
    /\ \/ \* requests.post raises: nothing in run_apify_actor catches it,
          \* main does and exits
          /\ pc' = "exit" /\ exit_code' = 1
          /\ obs' = [obs EXCEPT !.raised = "submit",
                                !.submitted = Append(@, job_titles[ti])]
          /\ UNCHANGED <<status, waited>>
       \/ \E ok \in BOOLEAN :
            IF RaiseForStatus(ok)
            THEN /\ pc' = "exit" /\ exit_code' = 1
                 /\ obs' = [obs EXCEPT !.raised = "submit",
                                       !.submitted = Append(@, job_titles[ti])]
                 /\ UNCHANGED <<status, waited>>
            ELSE /\ \E s \in RunStatuses : status' = s
                 /\ waited' = 0
                 /\ pc' = "poll"
                 /\ obs' = [obs EXCEPT !.polls = 0, !.retrievals = 0,
                                       !.raised = IF ok THEN @ ELSE "submit",
                                       !.submitted = Append(@, job_titles[ti])]
                 /\ UNCHANGED exit_code
    /\ UNCHANGED <<digestVars, env, peer, storeVars, script, argv, runs,
                   job_titles, ti, results, si, saved_count, db_job>>

\* a loop that goes round once more at the ceiling
StillWaitingInclusive(st, w) == st \in InProgress /\ w <= max_wait

\* the while condition of the polling loop
StillWaiting(st, w) == st \in InProgress /\ w < max_wait

\* run_apify_actor: one turn of the while loop.  The runner leaves the
\* in-progress statuses after at most `patience` polls.
Poll(patience) ==
    /\ pc = "poll"
    /\ StillWaiting(status, waited)
    /\ waited' = waited + poll_interval
    /\ \/ \* the status request or its decoding raises
          /\ pc' = "exit" /\ exit_code' = 1
          /\ obs' = [obs EXCEPT !.raised = "poll", !.polls = @ + 1]
          /\ UNCHANGED status
       \/ /\ \E s \in RunStatuses :
                /\ s \in InProgress => obs.polls + 1 < patience
                /\ status' = s
          /\ obs' = [obs EXCEPT !.polls = @ + 1]
          /\ UNCHANGED <<pc, exit_code>>
    /\ UNCHANGED <<digestVars, env, peer, storeVars, script, argv, runs, job_titles, ti,
                   results, si, saved_count, db_job>>

\* a loop that leaves the records as the runner gave them
Untagged(job, title) == job

\* job['search_title'] = title
Tagged(job, title) ==
    [ k \in DOMAIN job \cup {"search_title"} |->
        IF k = "search_title" THEN title ELSE job[k] ]

\* run_apify_actor: after the loop
EndPoll ==
    /\ pc = "poll"
    /\ ~StillWaiting(status, waited)
    /\ IF status # "SUCCEEDED"
       THEN ti' = ti + 1 /\ pc' = "submit"      \* continue
       ELSE ti' = ti /\ pc' = "retrieve"
    /\ UNCHANGED <<digestVars, env, peer, storeVars, script, argv, exit_code, runs, job_titles,
                   status, waited, results, si, saved_count, db_job, obs>>

\* run_apify_actor: get the dataset items, tag them, extend results
Retrieve ==
    /\ pc = "retrieve"
    /\ \/ \* the request raises, or the body is not a list of records
          /\ pc' = "exit" /\ exit_code' = 1
          /\ obs' = [obs EXCEPT !.raised = "retrieve", !.retrievals = @ + 1]
          /\ UNCHANGED <<results, ti>>
       \/ /\ \E jobs \in Datasets :
                results' = results \o
                    [ i \in 1..Len(jobs) |-> Tagged(jobs[i], job_titles[ti]) ]
          /\ ti' = ti + 1
          /\ pc' = "submit"
          /\ obs' = [obs EXCEPT !.retrievals = @ + 1]
          /\ UNCHANGED exit_code
    /\ UNCHANGED <<digestVars, env, peer, storeVars, script, argv, runs, job_titles, status,
                   waited, si, saved_count, db_job>>

\* run_apify_actor returns; main: if jobs: save_to_supabase(jobs)
ActorReturn ==
    /\ pc = "submit" /\ ti > Len(job_titles)
    /\ IF results = << >>
       THEN Exit(0, "")
       ELSE pc' = "save_start" /\ UNCHANGED <<exit_code, obs>>
    \* the locals of run_apify_actor end with the call
    /\ ti' = 0 /\ status' = "" /\ waited' = 0
    /\ UNCHANGED <<digestVars, env, peer, storeVars, script, argv, runs, job_titles, results,
                   si, saved_count, db_job>>

\* save_to_supabase: the credentials check and saved_count = 0
SaveStart ==
    /\ pc = "save_start"
    /\ IF ~HasStore
       THEN Exit(1, "ValueError") /\ UNCHANGED <<si, saved_count>>
       ELSE /\ saved_count' = 0
            /\ si' = 1
            /\ pc' = "save"
            /\ obs' = [obs EXCEPT !.rows_before = Len(jobs_table),
                                  !.upsert = "", !.existed = FALSE,
                                  !.answers = 0, !.counted = 0,
                                  !.skipped = 0,
                                  !.all_existed = TRUE, !.changed = FALSE]
            /\ UNCHANGED exit_code
    /\ UNCHANGED <<digestVars, env, peer, storeVars, script, argv, runs, job_titles, ti, status,
                   waited, results, db_job>>

\* a loop that counts the conflicts as saved
AfterResponseCountingConflicts(status_code, count) ==
    [ saved_count |->
          IF status_code \in {200, 201, 409} THEN count + 1 ELSE count,
      raises |-> FALSE ]

\* a loop that raises for the status codes of failure
AfterResponseRaising(status_code, count) ==
    [ saved_count |-> IF status_code \in {200, 201} THEN count + 1 ELSE count,
      raises |-> status_code >= 400 ]

\* a loop that gives up when the store reports a conflict
AfterResponseRaisingOnConflict(status_code, count) ==
    [ saved_count |-> IF status_code \in {200, 201} THEN count + 1 ELSE count,
      raises |-> status_code = 409 ]

\* save_to_supabase: what follows the store's answer; never an exception
AfterResponse(status_code, count) ==
    [ saved_count |-> IF status_code \in {200, 201} THEN count + 1 ELSE count,
      raises |-> FALSE ]

StatusName(status_code) ==
    CASE status_code = 200 -> "200" [] status_code = 201 -> "201"
      [] status_code = 409 -> "409" [] OTHER -> "500"

\* save_to_supabase: one turn of the for loop
SaveJob ==
    /\ pc = "save" /\ si <= Len(results)
    /\ \/ /\ TransformRaises(script, results[si])
          /\ pc' = "exit" /\ exit_code' = 1
          /\ obs' = [obs EXCEPT !.raised = "AttributeError",
                                !.upsert = "", !.existed = FALSE]
          /\ UNCHANGED <<jobs_table, si, saved_count, db_job>>
       \/ /\ ~TransformRaises(script, results[si])
          /\ db_job' = Transform(script, results[si])
          /\ \/ \* requests.post raises: no answer from the store
                /\ pc' = "exit" /\ exit_code' = 1
                /\ obs' = [obs EXCEPT !.raised = "upsert request",
                                      !.upsert = "", !.existed = FALSE]
                /\ UNCHANGED <<jobs_table, si, saved_count>>
             \/ \E answer \in StoreUpsert(jobs_table, db_job', Prefer) :
                  LET after == AfterResponse(answer.status_code, saved_count)
                      seen == [obs EXCEPT
                                 !.upsert = StatusName(answer.status_code),
                                 !.answers = @ + 1,
                                 !.counted =
                                     IF answer.status_code \in {200, 201}
                                     THEN @ + 1 ELSE @,
                                 !.skipped =
                                     IF answer.status_code
                                            \in {200, 201, 409}
                                     THEN @ ELSE @ + 1,
                                 !.existed = HasExternalId(jobs_table,
                                                 db_job'.external_id),
                                 !.all_existed =
                                     @ /\ HasExternalId(jobs_table,
                                              db_job'.external_id),
                                 !.changed =
                                     @ \/ answer.table # jobs_table]
                  IN  /\ jobs_table' = answer.table
                      /\ saved_count' = after.saved_count
                      /\ IF after.raises
                         THEN /\ pc' = "exit" /\ exit_code' = 1
                              /\ obs' = [seen EXCEPT !.raised = "HTTPError"]
                              /\ UNCHANGED si
                         ELSE /\ si' = si + 1
                              /\ obs' = seen
                              /\ UNCHANGED <<pc, exit_code>>
    /\ UNCHANGED <<digestVars, env, peer, job_titles_table, email_logs, script, argv, runs,
                   job_titles, ti, status, waited, results>>

\* save_to_supabase returns saved_count; main prints it and ends
SaveReturn ==
    /\ pc = "save" /\ si > Len(results)
    /\ pc' = "exit"
    /\ exit_code' = 0
    /\ UNCHANGED <<digestVars, env, peer, storeVars, script, argv, runs, job_titles, ti, status,
                   waited, results, si, saved_count, db_job, obs>>

\* the script is invoked again, against the store as the last run left it
IngestAgain ==
    /\ pc = "exit" /\ script \in Sources
    /\ runs < MaxRuns
    /\ runs' = runs + 1
    /\ \E a \in SeqsUpTo(Titles, MaxTitles) : argv' = a
    /\ pc' = "main"
    /\ exit_code' = -1
    /\ job_titles' = << >> /\ ti' = 0 /\ status' = "" /\ waited' = 0
    /\ results' = << >> /\ si' = 0 /\ saved_count' = 0
    /\ db_job' = None
    /\ obs' = [obs EXCEPT !.polls = 0, !.retrievals = 0, !.submitted = << >>,
                          !.raised = "", !.upsert = "", !.existed = FALSE,
                          !.answers = 0, !.counted = 0, !.skipped = 0,
                          !.rows_before = 0, !.all_existed = TRUE,
                          !.changed = FALSE]
    /\ UNCHANGED <<digestVars, env, peer, storeVars, script>>

\* what the digest runs have been seen to do
NoDigestObs ==
    [ listed |-> FALSE,        \* this run fetched the subscriber list
      faults |-> 0,            \* requests that failed so far
      fetch_failed |-> FALSE,  \* this run's subscriber request failed
      mailed |-> {},           \* <<user, job id>> delivered in a jobs email
      remailed |-> FALSE,      \* some pair was delivered a second time
      log_failed |-> FALSE,    \* some email_logs write did not succeed
      changed |-> FALSE,       \* the jobs table changed since the last run
      outcome |-> [u \in Users |-> ""],    \* of each user, this run
      tried |-> [u \in Users |-> << >>],   \* ids of new_jobs, this run
      logged |-> [u \in Users |-> 0],      \* email_logs rows written
      mail |-> [u \in Users |-> ""],       \* email delivered, this run
      prev |-> [u \in Users |->
                  [outcome |-> "", tried |-> << >>, logged |-> 0]] ]

DigestIdle ==
    /\ users = << >> /\ ui = 0 /\ titles = << >> /\ sent_job_ids = << >>
    /\ all_jobs = << >> /\ new_jobs = << >> /\ li = 0
    /\ emails_sent = 0 /\ no_jobs_emails = 0 /\ errors = << >>
    /\ dobs = NoDigestObs

TitleTables ==
    { << >>,
      <<[user_id |-> "u1", title |-> TitleDE],
        [user_id |-> "u1", title |-> TitlePM],
        [user_id |-> "u2", title |-> TitleDE]>> }

InitIngest ==
    /\ env \in { Credentials,
                  Credentials \ {"APIFY_API_TOKEN"},
                  Credentials \ {"SUPABASE_KEY"} }
    /\ jobs_table = << >>
    /\ job_titles_table \in TitleTables
    /\ email_logs = << >>
    /\ script \in Sources
    /\ argv \in SeqsUpTo(Titles, MaxTitles)
    /\ pc = "main"
    /\ exit_code = -1
    /\ runs = 1
    /\ job_titles = << >> /\ ti = 0 /\ status = "" /\ waited = 0
    /\ results = << >> /\ si = 0 /\ saved_count = 0
    /\ db_job = None
    /\ obs = NoObs
    /\ DigestIdle
    /\ peer = NoPeer

vars == <<env, jobs_table, job_titles_table, email_logs, script, argv, pc,
          exit_code, runs, job_titles, ti, status, waited, results, si,
          saved_count, db_job, obs, digestVars, peer>>

\* the ingestion scripts, run after run against one store
NextIngest ==
    \/ MainArgs \/ MainFetchTitles \/ ActorStart \/ Submit
    \/ Poll(MaxPending)
    \/ EndPoll \/ Retrieve \/ ActorReturn \/ SaveStart \/ SaveJob
    \/ SaveReturn \/ IngestAgain

SpecIngest == InitIngest /\ [][NextIngest]_vars

\* one ingestion run, with a runner that may stay in progress for ever
NextPoll ==
    \/ MainArgs \/ MainFetchTitles \/ ActorStart \/ Submit
    \/ Poll(max_wait)
    \/ EndPoll \/ Retrieve \/ ActorReturn \/ SaveStart \/ SaveJob
    \/ SaveReturn

SpecPoll == InitIngest /\ [][NextPoll]_vars


(***************************************************************************)
(* Strings, as the digest script formats them into a URL and as the store  *)
(* reads them back                                                         *)
(***************************************************************************)
\* index of the first c in chars, 0 when there is none
IndexOf(chars, c) ==
    IF \E i \in 1..Len(chars) : chars[i] = c
    THEN CHOOSE i \in 1..Len(chars) :
            chars[i] = c /\ \A j \in 1..(i - 1) : chars[j] # c
    ELSE 0

From(chars, i) == SubSeq(chars, i, Len(chars))

StartsWith(chars, prefix) ==
    Len(chars) >= Len(prefix) /\ SubSeq(chars, 1, Len(prefix)) = prefix

\* chars.split(c)
RECURSIVE SplitOn(_, _)
SplitOn(chars, c) ==
    IF IndexOf(chars, c) = 0 THEN <<chars>>
    ELSE <<SubSeq(chars, 1, IndexOf(chars, c) - 1)>>
            \o SplitOn(From(chars, IndexOf(chars, c) + 1), c)

\* sep.join(parts)
RECURSIVE Join(_, _)
Join(parts, sep) ==
    IF parts = << >> THEN << >>
    ELSE IF Len(parts) = 1 THEN parts[1]
    ELSE parts[1] \o sep \o Join(Tail(parts), sep)

DigitValue(c) ==
    CASE c = "0" -> 0 [] c = "1" -> 1 [] c = "2" -> 2 [] c = "3" -> 3
      [] c = "4" -> 4 [] c = "5" -> 5 [] c = "6" -> 6 [] c = "7" -> 7
      [] c = "8" -> 8 [] c = "9" -> 9 [] OTHER -> -1

\* int(chars), -1 when chars is not a decimal number
RECURSIVE ParseNat(_)
ParseNat(chars) ==
    IF chars = << >> \/ DigitValue(chars[Len(chars)]) < 0 THEN -1
    ELSE IF Len(chars) = 1 THEN DigitValue(chars[1])
    ELSE LET high == ParseNat(SubSeq(chars, 1, Len(chars) - 1))
         IN  IF high < 0 THEN -1 ELSE 10 * high + DigitValue(chars[Len(chars)])

\* title_filters = ','.join([f'"{t}"' for t in titles])
TitleFilters(ts) ==
    Join([ i \in 1..Len(ts) |-> <<"\"">> \o Format(ts[i]) \o <<"\"">> ], <<",">>)

\* the query of jobs_url:
\*   search_title=in.({title_filters})&order=scraped_at.desc&limit=20
JobsQueryString(ts) ==
    <<"s", "e", "a", "r", "c", "h", "_", "t", "i", "t", "l", "e", "=", "i", "n", ".", "(">>
        \o TitleFilters(ts)
        \o <<")", "&", "o", "r", "d", "e", "r", "=", "s", "c", "r", "a", "p", "e", "d", "_", "a", "t", ".", "d", "e", "s", "c", "&", "l", "i", "m", "i", "t", "=", "2", "0">>

(***************************************************************************)
(* The store's answer to GET /rest/v1/jobs?<query>                         *)
(***************************************************************************)
BadList == [ok |-> FALSE, items |-> {}]

\* the elements of "a","b",...) : double-quoted, separated by commas, closed
\* by the parenthesis that ends the value
RECURSIVE QuotedItems(_)
QuotedItems(chars) ==
    IF chars = <<")">> THEN [ok |-> TRUE, items |-> {}]
    ELSE IF chars = << >> \/ Head(chars) # "\"" THEN BadList
    ELSE LET close == IndexOf(Tail(chars), "\"")
             rest == From(Tail(chars), close + 1)
         IN  IF close = 0 THEN BadList
             ELSE IF rest = <<")">>
             THEN [ok |-> TRUE, items |-> {SubSeq(Tail(chars), 1, close - 1)}]
             ELSE IF rest # << >> /\ Head(rest) = ","
             THEN LET more == QuotedItems(Tail(rest))
                  IN  [ok |-> more.ok,
                       items |-> more.items
                                   \cup {SubSeq(Tail(chars), 1, close - 1)}]
             ELSE BadList

\* the value of an in.(...) filter
InList(value) ==
    IF StartsWith(value, <<"i", "n", ".", "(">>)
    THEN QuotedItems(From(value, 5))
    ELSE BadList

\* what reaches the store of a query: the client sends nothing from the
\* first '#' on, and '&' separates the parameters
QueryParams(query) ==
    SplitOn(IF IndexOf(query, "#") = 0 THEN query
            ELSE SubSeq(query, 1, IndexOf(query, "#") - 1), "&")

ParamKey(param) ==
    IF IndexOf(param, "=") = 0 THEN param
    ELSE SubSeq(param, 1, IndexOf(param, "=") - 1)

ParamValue(param) ==
    IF IndexOf(param, "=") = 0 THEN << >>
    ELSE From(param, IndexOf(param, "=") + 1)

KeySearchTitle == <<"s", "e", "a", "r", "c", "h", "_", "t", "i", "t", "l", "e">>
KeyOrder == <<"o", "r", "d", "e", "r">>
KeyLimit == <<"l", "i", "m", "i", "t">>
ScrapedAtDesc == <<"s", "c", "r", "a", "p", "e", "d", "_", "a", "t", ".", "d", "e", "s", "c">>

\* rows by scraped_at, the latest first
RECURSIVE SortDesc(_)
SortDesc(rows) ==
    IF rows = << >> THEN << >>
    ELSE LET latest == CHOOSE i \in 1..Len(rows) :
                          \A j \in 1..Len(rows) :
                              rows[j].scraped_at <= rows[i].scraped_at
         IN  <<rows[latest]>>
                \o SortDesc([ k \in 1..(Len(rows) - 1) |->
                                IF k < latest THEN rows[k] ELSE rows[k + 1] ])

RECURSIVE SelectRows(_, _)
SelectRows(rows, items) ==
    IF rows = << >> THEN << >>
    ELSE (IF IsStr(Head(rows).search_title)
             /\ Head(rows).search_title.s \in items
          THEN <<Head(rows)>> ELSE << >>)
         \o SelectRows(Tail(rows), items)

\* The answer to the jobs query: an error (400) when a parameter is not one
\* the store understands, else the rows whose search_title is in the list,
\* ordered and limited as the parameters say.
JobsAnswer(table, query) ==
    LET params == QueryParams(query)
        With(key) == { i \in 1..Len(params) : ParamKey(params[i]) = key }
        known == With(KeySearchTitle) \cup With(KeyOrder) \cup With(KeyLimit)
        ValueOf(key) == ParamValue(params[CHOOSE i \in With(key) : TRUE])
        list == IF With(KeySearchTitle) = {}
                THEN BadList ELSE InList(ValueOf(KeySearchTitle))
        limit == IF With(KeyLimit) = {} THEN Len(table)
                 ELSE ParseNat(ValueOf(KeyLimit))
        ok == /\ known = 1..Len(params)
              /\ list.ok
              /\ limit >= 0
              /\ With(KeyOrder) # {} => ValueOf(KeyOrder) = ScrapedAtDesc
        selected == SelectRows(table, list.items)
        ordered == IF With(KeyOrder) = {} THEN selected ELSE SortDesc(selected)
    IN  IF ok
        THEN [ok |-> TRUE,
              rows |-> SubSeq(ordered, 1,
                         IF Len(ordered) < limit THEN Len(ordered) ELSE limit)]
        ELSE [ok |-> FALSE, rows |-> << >>]

\* GET /rest/v1/job_titles?user_id=eq.<id>&select=title
TitlesAnswer(table, user) ==
    LET Keep(row) == row.user_id = user
        F[i \in 0..Len(table)] ==
            IF i = 0 THEN << >>
            ELSE IF Keep(table[i]) THEN Append(F[i - 1], table[i].title)
            ELSE F[i - 1]
    IN  F[Len(table)]

\* GET /rest/v1/email_logs?user_id=eq.<id>&select=job_id
SentAnswer(logs, user) ==
    LET F[i \in 0..Len(logs)] ==
            IF i = 0 THEN << >>
            ELSE IF logs[i].user_id = user THEN Append(F[i - 1], logs[i].job_id)
            ELSE F[i - 1]
    IN  F[Len(logs)]

(***************************************************************************)
(* send_daily_emails.py                                                    *)
(***************************************************************************)
\* rows the jobs table may grow to
MaxJobs == 3
\* requests that may fail in one history of digest runs
MaxFaults == 1

\* response.json() of the profiles request: the subscribed users
Profiles == <<"u1", "u2">>

\* a check that asks for the mailer's key as well
DigestConfigOkWithMailer == HasStore /\ "RESEND_API_KEY" \in env

\* not (not SUPABASE_URL or not SUPABASE_KEY)
DigestConfigOk == HasStore

CanFail == dobs.faults < MaxFaults

Ids(rows) == [ i \in 1..Len(rows) |-> rows[i].id ]

InSeq(x, seq) == \E i \in 1..Len(seq) : seq[i] = x

\* a digest that forgets what was sent
NewJobsUnfiltered(all, sent) == all

\* [j for j in all_jobs if j['id'] not in sent_job_ids]
NewJobs(all, sent) ==
    LET F[i \in 0..Len(all)] ==
            IF i = 0 THEN << >>
            ELSE IF InSeq(all[i].id, sent) THEN F[i - 1]
            ELSE Append(F[i - 1], all[i])
    IN  F[Len(all)]

\* a loop without the check of titles
NeverSkipsUser(ts) == FALSE

\* if not titles: continue
SkipsUser(ts) == ts = << >>

\* a handler outside the loop
AfterExceptStop(i) == Len(users) + 1

\* the except clause ends the iteration of the user; the loop goes on
AfterExcept(i) == i + 1

\* a branch that logs whatever send_email returns
AfterSendLogsAnyway(ok, has_jobs) ==
    IF has_jobs THEN "log" ELSE IF ok THEN "counted" ELSE "failed"

\* the branch taken on send_email's return value
AfterSend(ok, has_jobs) ==
    IF ~ok THEN "failed" ELSE IF has_jobs THEN "log" ELSE "counted"

\* the for loop reaches index i of users
GoToUser(i) ==
    /\ ui' = i
    /\ pc' = IF i > Len(users) THEN "d_summary" ELSE "d_titles"
    /\ titles' = << >> /\ sent_job_ids' = << >>
    /\ all_jobs' = << >> /\ new_jobs' = << >> /\ li' = 0

\* a handler that prints the error without recording it
CaughtSilently ==
    /\ errors' = errors
    /\ GoToUser(AfterExcept(ui))

\* except Exception as e: errors.append(...)
Caught ==
    /\ errors' = Append(errors, users[ui])
    /\ GoToUser(AfterExcept(ui))

DigestStart ==
    /\ pc = "d_main"
    /\ \/ /\ ~DigestConfigOk
          /\ pc' = "exit" /\ exit_code' = 1
          /\ UNCHANGED digestVars
       \/ /\ DigestConfigOk /\ CanFail
          \* response.raise_for_status() raises, nobody catches
          /\ pc' = "exit" /\ exit_code' = 1
          /\ dobs' = [dobs EXCEPT !.fetch_failed = TRUE, !.faults = @ + 1]
          /\ UNCHANGED <<users, ui, titles, sent_job_ids, all_jobs, new_jobs,
                         li, emails_sent, no_jobs_emails, errors>>
       \/ /\ DigestConfigOk
          /\ users' = Profiles
          /\ emails_sent' = 0 /\ no_jobs_emails' = 0 /\ errors' = << >>
          /\ dobs' = [dobs EXCEPT !.listed = TRUE]
          /\ ui' = 1
          /\ pc' = IF Profiles = << >> THEN "d_summary" ELSE "d_titles"
          /\ UNCHANGED <<exit_code, titles, sent_job_ids, all_jobs, new_jobs,
                         li>>
    /\ UNCHANGED <<ingestVars, env, peer, storeVars, script, runs>>

FetchTitles ==
    /\ pc = "d_titles"
    /\ \/ /\ CanFail
          \* the request raises, or the answer is not a list of rows
          /\ dobs' = [dobs EXCEPT !.outcome[users[ui]] = "failed:titles",
                                  !.faults = @ + 1]
          /\ Caught
       \/ /\ SkipsUser(TitlesAnswer(job_titles_table, users[ui]))
          /\ dobs' = [dobs EXCEPT !.outcome[users[ui]] = "skipped"]
          /\ GoToUser(ui + 1)
          /\ UNCHANGED errors
       \/ /\ ~SkipsUser(TitlesAnswer(job_titles_table, users[ui]))
          /\ titles' = TitlesAnswer(job_titles_table, users[ui])
          /\ pc' = "d_sent"
          /\ UNCHANGED <<ui, sent_job_ids, all_jobs, new_jobs, li, errors,
                         dobs>>
    /\ UNCHANGED <<ingestVars, env, peer, storeVars, script, runs, exit_code,
                   users, emails_sent, no_jobs_emails>>

FetchSent ==
    /\ pc = "d_sent"
    /\ \/ /\ CanFail
          /\ dobs' = [dobs EXCEPT !.outcome[users[ui]] = "failed:sent",
                                  !.faults = @ + 1]
          /\ Caught
       \/ /\ sent_job_ids' = SentAnswer(email_logs, users[ui])
          /\ pc' = "d_jobs"
          /\ UNCHANGED <<ui, titles, all_jobs, new_jobs, li, errors, dobs>>
    /\ UNCHANGED <<ingestVars, env, peer, storeVars, script, runs, exit_code,
                   users, emails_sent, no_jobs_emails>>

FetchJobs ==
    /\ pc = "d_jobs"
    /\ LET answer == JobsAnswer(jobs_table, JobsQueryString(titles))
       IN  \/ /\ CanFail
              /\ dobs' = [dobs EXCEPT !.outcome[users[ui]] = "failed:jobs",
                                      !.faults = @ + 1]
              /\ Caught
           \/ /\ ~answer.ok
              \* all_jobs is the error object: j['id'] raises TypeError
              /\ dobs' = [dobs EXCEPT !.outcome[users[ui]] = "failed:query"]
              /\ Caught
           \/ /\ answer.ok
              /\ all_jobs' = answer.rows
              /\ new_jobs' = NewJobs(answer.rows, sent_job_ids)
              /\ dobs' = [dobs EXCEPT !.tried[users[ui]] = Ids(new_jobs')]
              /\ pc' = "d_send"
              /\ UNCHANGED <<ui, titles, sent_job_ids, li, errors>>
    /\ UNCHANGED <<ingestVars, env, peer, storeVars, script, runs, exit_code,
                   users, emails_sent, no_jobs_emails>>

\* send_email(...) and the branch on what it returns
SendEmail ==
    /\ pc = "d_send"
    /\ LET u == users[ui]
           has_jobs == new_jobs # << >>
       IN  \/ /\ "RESEND_API_KEY" \notin env
              \* raise ValueError("RESEND_API_KEY not set")
              /\ dobs' = [dobs EXCEPT !.outcome[u] = "failed:sendraise"]
              /\ Caught
              /\ UNCHANGED <<emails_sent, no_jobs_emails>>
           \/ /\ "RESEND_API_KEY" \in env /\ CanFail
              \* requests.post raises
              /\ dobs' = [dobs EXCEPT !.outcome[u] = "failed:sendraise",
                                      !.faults = @ + 1]
              /\ Caught
              /\ UNCHANGED <<emails_sent, no_jobs_emails>>
           \/ /\ "RESEND_API_KEY" \in env
              /\ \E status_code \in {200, 422} :
                  LET ok == status_code = 200
                      branch == AfterSend(ok, has_jobs)
                      delivered == IF ok /\ has_jobs
                                   THEN { <<u, new_jobs[k].id>> :
                                            k \in 1..Len(new_jobs) }
                                   ELSE {}
                      seen == [dobs EXCEPT
                                 !.faults = IF ok THEN @ ELSE @ + 1,
                                 !.mail[u] = IF ~ok THEN ""
                                             ELSE IF has_jobs THEN "jobs"
                                             ELSE "nojobs",
                                 !.remailed = @ \/ delivered \cap dobs.mailed
                                                     # {},
                                 !.mailed = @ \cup delivered]
                  IN  /\ ok \/ CanFail
                      /\ \/ /\ branch = "log"
                            /\ pc' = "d_log" /\ li' = 1
                            /\ dobs' = seen
                            /\ UNCHANGED <<ui, titles, sent_job_ids, all_jobs,
                                           new_jobs, errors, emails_sent,
                                           no_jobs_emails>>
                         \/ /\ branch = "counted"
                            /\ no_jobs_emails' = no_jobs_emails + 1
                            /\ dobs' = [seen EXCEPT !.outcome[u] = "empty"]
                            /\ GoToUser(ui + 1)
                            /\ UNCHANGED <<errors, emails_sent>>
                         \/ /\ branch = "failed"
                            /\ errors' = Append(errors, u)
                            /\ dobs' = [seen EXCEPT
                                          !.outcome[u] = "failed:send"]
                            /\ GoToUser(ui + 1)
                            /\ UNCHANGED <<emails_sent, no_jobs_emails>>
    /\ UNCHANGED <<ingestVars, env, peer, storeVars, script, runs, exit_code,
                   users>>

\* requests.post(.../rest/v1/email_logs, json={user_id, job_id}), whose
\* response the script does not look at
WriteLog ==
    /\ pc = "d_log" /\ li <= Len(new_jobs)
    /\ LET u == users[ui]
       IN  \/ /\ email_logs' = Append(email_logs,
                                 [user_id |-> u, job_id |-> new_jobs[li].id])
              /\ dobs' = [dobs EXCEPT !.logged[u] = @ + 1]
              /\ li' = li + 1
              /\ UNCHANGED <<pc, ui, titles, sent_job_ids, all_jobs, new_jobs,
                             errors>>
           \/ /\ CanFail
              \* the store refuses the row
              /\ dobs' = [dobs EXCEPT !.log_failed = TRUE, !.faults = @ + 1]
              /\ li' = li + 1
              /\ UNCHANGED <<pc, ui, titles, sent_job_ids, all_jobs, new_jobs,
                             errors, email_logs>>
           \/ /\ CanFail
              \* requests.post raises
              /\ dobs' = [dobs EXCEPT !.log_failed = TRUE, !.faults = @ + 1,
                                      !.outcome[u] = "failed:log"]
              /\ Caught
              /\ UNCHANGED email_logs
    /\ UNCHANGED <<ingestVars, env, peer, jobs_table, job_titles_table, script, runs,
                   exit_code, users, emails_sent, no_jobs_emails>>

\* emails_sent += 1, after the loop over new_jobs
LogsDone ==
    /\ pc = "d_log" /\ li > Len(new_jobs)
    /\ emails_sent' = emails_sent + 1
    /\ dobs' = [dobs EXCEPT !.outcome[users[ui]] = "sent"]
    /\ GoToUser(ui + 1)
    /\ UNCHANGED <<ingestVars, env, peer, storeVars, script, runs, exit_code,
                   users, no_jobs_emails, errors>>

\* the summary is printed and main returns
Summary ==
    /\ pc = "d_summary"
    /\ pc' = "exit" /\ exit_code' = 0
    /\ UNCHANGED <<ingestVars, env, peer, storeVars, script, runs, digestVars>>

DigitChar(n) ==
    CASE n = 0 -> "0" [] n = 1 -> "1" [] n = 2 -> "2" [] n = 3 -> "3"
      [] n = 4 -> "4" [] n = 5 -> "5" [] n = 6 -> "6" [] n = 7 -> "7"
      [] n = 8 -> "8" [] OTHER -> "9"

\* between two digest runs an ingestion run stores a new job
JobArrives ==
    /\ script = "digest" /\ pc = "d_main"
    /\ Len(jobs_table) < MaxJobs
    /\ \E title \in {TitleDE, TitleRD} :
          jobs_table' = Append(jobs_table,
              NewRow(jobs_table,
                     [external_id |->
                          S(LinkedinPrefix
                              \o <<DigitChar(Len(jobs_table) + 1)>>),
                      search_title |-> title]))
    /\ dobs' = [dobs EXCEPT !.changed = TRUE]
    /\ UNCHANGED <<ingestVars, env, peer, job_titles_table, email_logs, script, runs,
                   pc, exit_code, users, ui, titles, sent_job_ids, all_jobs,
                   new_jobs, li, emails_sent, no_jobs_emails, errors>>

\* the scheduler starts the script again, after the previous run has ended
DigestAgain ==
    /\ script = "digest" /\ pc = "exit" /\ runs < MaxRuns
    /\ runs' = runs + 1
    /\ pc' = "d_main" /\ exit_code' = -1
    /\ users' = << >> /\ ui' = 0 /\ titles' = << >> /\ sent_job_ids' = << >>
    /\ all_jobs' = << >> /\ new_jobs' = << >> /\ li' = 0
    /\ emails_sent' = 0 /\ no_jobs_emails' = 0 /\ errors' = << >>
    /\ dobs' = [dobs EXCEPT
                  !.listed = FALSE, !.fetch_failed = FALSE, !.changed = FALSE,
                  !.outcome = NoDigestObs.outcome,
                  !.tried = NoDigestObs.tried,
                  !.logged = NoDigestObs.logged,
                  !.mail = NoDigestObs.mail,
                  !.prev = [ u \in Users |->
                               [outcome |-> dobs.outcome[u],
                                tried |-> dobs.tried[u],
                                logged |-> dobs.logged[u]] ]]
    /\ UNCHANGED <<ingestVars, env, peer, storeVars, script>>

\* the title preferences of the subscribers
DigestTitleTables ==
    { <<[user_id |-> "u1", title |-> TitleDE]>>,
      <<[user_id |-> "u1", title |-> TitleDE],
        [user_id |-> "u2", title |-> TitleDE],
        [user_id |-> "u2", title |-> TitlePM]>>,
      <<[user_id |-> "u1", title |-> TitleRD],
        [user_id |-> "u2", title |-> TitleDE]>> }

InitDigest ==
    /\ env \in { Credentials,
                  Credentials \ {"RESEND_API_KEY"},
                  Credentials \ {"SUPABASE_KEY"} }
    /\ jobs_table = << >>
    /\ job_titles_table \in DigestTitleTables
    /\ email_logs = << >>
    /\ script = "digest"
    /\ argv = << >>
    /\ pc = "d_main"
    /\ exit_code = -1
    /\ runs = 1
    /\ job_titles = << >> /\ ti = 0 /\ status = "" /\ waited = 0
    /\ results = << >> /\ si = 0 /\ saved_count = 0
    /\ db_job = None
    /\ obs = NoObs
    /\ DigestIdle
    /\ peer = NoPeer

\* the digest script, run after run against one store
NextDigest ==
    \/ DigestStart \/ FetchTitles \/ FetchSent \/ FetchJobs \/ SendEmail
    \/ WriteLog \/ LogsDone \/ Summary \/ JobArrives \/ DigestAgain

SpecDigest == InitDigest /\ [][NextDigest]_vars

(***************************************************************************)
(* The transform alone, on every raw listing whose optional fields are     *)
(* absent, null or set                                                     *)
(***************************************************************************)
\* the keys each script reads from a raw listing
FieldsRead(src) ==
    {"jobId", "id", "title", "company", "location", "description", "jobUrl",
     "url", "salary", "search_title"}
    \cup (IF src = "monster" THEN {"jobTitle", "companyName"} ELSE {})

\* a value for a key that is set
Sample(key) ==
    CASE key \in {"jobId", "id"} -> S(<<"A", "1">>)
      [] key \in {"jobUrl", "url"} -> S(<<"m", "/", "B", "2">>)
      [] key = "search_title" -> TitleDE
      [] OTHER -> S(<<"X">>)

\* the listing with the keys `present`, of which `null` hold None
Listing(present, null) ==
    [ k \in present |-> IF k \in null THEN None ELSE Sample(k) ]

InitNormalize ==
    /\ env = Credentials
    /\ jobs_table = << >> /\ job_titles_table = << >> /\ email_logs = << >>
    /\ script \in Sources
    /\ argv = << >>
    /\ pc = "transform"
    /\ exit_code = -1
    /\ runs = 1
    /\ job_titles = << >> /\ ti = 0 /\ status = "" /\ waited = 0
    /\ \E present \in SUBSET FieldsRead(script) :
          \E null \in SUBSET present :
              results = <<Listing(present, null)>>
    /\ si = 1 /\ saved_count = 0
    /\ db_job = None
    /\ obs = NoObs
    /\ DigestIdle
    /\ peer = NoPeer

\* the first statement of save_to_supabase's loop body, on results[si]
TransformJob ==
    /\ pc = "transform"
    /\ \/ /\ TransformRaises(script, results[si])
          /\ pc' = "raised"
          /\ obs' = [obs EXCEPT !.raised = "AttributeError"]
          /\ UNCHANGED db_job
       \/ /\ ~TransformRaises(script, results[si])
          /\ db_job' = Transform(script, results[si])
          /\ pc' = "transformed"
          /\ UNCHANGED obs
    /\ UNCHANGED <<digestVars, env, peer, storeVars, script, argv, exit_code, runs, job_titles,
                   ti, status, waited, results, si, saved_count>>

NextNormalize == TransformJob

SpecNormalize == InitNormalize /\ [][NextNormalize]_vars

(***************************************************************************)
(* Descriptions around the limit of 5000 characters                        *)
(***************************************************************************)
\* a description of n characters, no two neighbours alike
Description(n) ==
    S([ i \in 1..n |->
          CASE i % 3 = 0 -> "a" [] i % 3 = 1 -> "b" [] OTHER -> "c" ])

\* the descriptions a listing may carry: short ones, and ones just below,
\* at and just above the limit
Descriptions ==
    { None, Description(0), Description(1),
      Description(DescriptionLimit - 1), Description(DescriptionLimit),
      Description(DescriptionLimit + 1), Description(DescriptionLimit + 2) }

\* save_to_supabase is at its first job; the listing has any of three other
\* fields and any of the descriptions, or none
InitDescription ==
    /\ env = Credentials
    /\ jobs_table = << >> /\ job_titles_table = << >> /\ email_logs = << >>
    /\ script \in Sources
    /\ argv = << >>
    /\ pc = "save"
    /\ exit_code = -1
    /\ runs = 1
    /\ job_titles = << >> /\ ti = 0 /\ status = "" /\ waited = 0
    /\ \E present \in SUBSET {"jobId", "title", "salary"} :
          \/ results = <<Listing(present, {})>>
          \/ \E d \in Descriptions :
                results = <<Listing(present, {}) @@ ("description" :> d)>>
    /\ si = 1 /\ saved_count = 0
    /\ db_job = None
    /\ obs = NoObs
    /\ DigestIdle
    /\ peer = NoPeer

NextDescription == SaveJob \/ SaveReturn

SpecDescription == InitDescription /\ [][NextDescription]_vars

(***************************************************************************)
(* The external_id of listings of both scripts                             *)
(***************************************************************************)
\* listings whose external_id is compared in one behaviour
MaxListings == 2

\* the values of the fields an external_id is built from
IdValues == { None, S(<<"A", "1">>), S(<<"B", "2">>) }
UrlValues == { None, S(<<"m", "/", "A", "1">>), S(<<"m", "/", "B", "2">>) }

\* raw listings with any of jobId, id and jobUrl absent, null or set
IdListings ==
    UNION { { raw \in [present -> IdValues \cup UrlValues] :
                \A k \in present :
                    raw[k] \in IF k = "jobUrl" THEN UrlValues ELSE IdValues } :
            present \in SUBSET {"jobId", "id", "jobUrl"} }

InitExternalId ==
    /\ env = Credentials
    /\ jobs_table = << >> /\ job_titles_table = << >> /\ email_logs = << >>
    /\ script \in Sources
    /\ argv = << >>
    /\ pc = "ids"
    /\ exit_code = -1
    /\ runs = 1
    /\ job_titles = << >> /\ ti = 0 /\ status = "" /\ waited = 0
    /\ results = << >> /\ si = 0 /\ saved_count = 0
    /\ db_job = None
    /\ obs = NoObs
    /\ DigestIdle
    /\ peer = NoPeer

\* one of the two scripts builds the db_job of one more listing
IdentifyJob ==
    /\ pc = "ids" /\ Len(obs.ids) < MaxListings
    /\ \E src \in Sources, raw \in IdListings :
          /\ script' = src
          /\ results' = <<raw>>
          /\ db_job' = IF TransformRaises(src, raw) THEN None
                       ELSE Transform(src, raw)
          /\ obs' = [obs EXCEPT !.ids =
                        Append(@, [source |-> src, raw |-> raw,
                                   raised |-> TransformRaises(src, raw),
                                   external_id |->
                                       IF TransformRaises(src, raw) THEN None
                                       ELSE Transform(src, raw).external_id])]
    /\ UNCHANGED <<digestVars, env, peer, storeVars, argv, pc, exit_code, runs,
                   job_titles, ti, status, waited, si, saved_count>>

NextExternalId == IdentifyJob

SpecExternalId == InitExternalId /\ [][NextExternalId]_vars

\* the columns of a row of the jobs table
CanonicalFields ==
    {"external_id", "source", "title", "company", "location", "description",
     "url", "salary", "search_title"}

IsValue(v) == v = None \/ IsStr(v)

\* C8: normalization is total for both sources: whatever optional fields of
\* the raw listing are absent or null, the transform never raises and yields
\* a job with every canonical field set (a string or None).
C8_NormalizationTotal ==
    /\ pc # "raised"
    /\ pc = "transformed" =>
          /\ DOMAIN db_job = CanonicalFields
          /\ db_job.source = script
          /\ \A f \in CanonicalFields \ {"source"} : IsValue(db_job[f])


(***************************************************************************)
(* Claims about ingestion                                                  *)
(***************************************************************************)
\* rows of the jobs table with this external_id
RowsWith(external_id) ==
    { i \in 1..Len(jobs_table) : jobs_table[i].external_id = external_id }

\* C1: over any sequence of ingestion runs, an upsert whose external_id is
\* already stored, answered by the store, never raises to the caller of
\* save_to_supabase, and no external_id is ever stored in more than one row.
C1_UpsertIdempotent ==
    /\ \A i \in 1..Len(jobs_table) :
          Cardinality(RowsWith(jobs_table[i].external_id)) = 1
    /\ obs.existed => obs.raised = "" /\ exit_code # 1

\* C1 witness: the second run of the script has upserted a job whose
\* external_id the first run stored, the store merged it, and the loop goes on
C1_Witness ==
    /\ runs = 2 /\ pc = "save" /\ si > 1
    /\ obs.existed /\ obs.upsert \in {"200", "201"}
    /\ Cardinality(RowsWith(db_job.external_id)) = 1
    /\ obs.rows_before > 0

\* save_to_supabase has gone through all its jobs and is about to return
SaveLoopDone == pc = "save" /\ si > Len(results)

\* C2: save_to_supabase returns the count of newly inserted jobs: a call
\* that re-submits jobs identical to rows already stored (the re-run of an
\* ingestion against the unchanged store) reports 0.
C2_RerunReportsZero ==
    (SaveLoopDone /\ obs.all_existed /\ ~obs.changed) => saved_count = 0

\* the loop has stopped on the ceiling: still in progress, no turn left
TimedOut == pc = "poll" /\ status \in InProgress /\ ~StillWaiting(status, waited)

\* C7: whatever statuses the runner reports, run_apify_actor polls at most
\* 60 times per title and only while the last status is in progress; when
\* every answer is in progress it stops after exactly 60 polls (300 time
\* units), does not raise, retrieves nothing for that title and goes on to
\* the next title.
C7_PollCeiling ==
    /\ [](obs.polls <= 60)
    /\ [](pc = "poll" => waited = poll_interval * obs.polls)
    /\ [][obs'.polls = obs.polls + 1 => status \in InProgress]_vars
    /\ [](TimedOut => obs.polls = 60 /\ waited = 300)
    /\ [][TimedOut =>
            /\ pc' = "submit" /\ ti' = ti + 1
            /\ exit_code' = -1 /\ obs'.raised = ""
            /\ obs'.retrievals = 0 /\ results' = results]_vars

\* C7 witness: the first title timed out after 60 polls and the loop is at
\* the second title
C7_Witness ==
    /\ pc = "submit" /\ ti = 2 /\ Len(job_titles) = 2
    /\ status = "RUNNING" /\ obs.polls = 60 /\ waited = 300
    /\ obs.retrievals = 0 /\ exit_code = -1

(***************************************************************************)
(* The digest runs                                                         *)
(***************************************************************************)
Failures ==
    { "failed:titles", "failed:sent", "failed:jobs", "failed:query",
      "failed:send", "failed:sendraise", "failed:log" }

SendFailed == {"failed:send", "failed:sendraise"}

ErrorsFor(u) == Cardinality({ i \in 1..Len(errors) : errors[i] = u })

LogsOf(u) == { i \in 1..Len(email_logs) : email_logs[i].user_id = u }

\* C3: while every email_logs write succeeds no job is delivered twice to
\* the same user; and in the run after one that sent a user its jobs and
\* logged each of them, with no job stored in between, the user is tried no
\* job, gets no row written, and gets the "no jobs" email when the run
\* handles the user without a failure.
C3_NoResend ==
    /\ ~dobs.log_failed => ~dobs.remailed
    /\ \A u \in Users :
          ( /\ dobs.prev[u].outcome = "sent"
            /\ dobs.prev[u].logged = Len(dobs.prev[u].tried)
            /\ ~dobs.changed )
          => /\ dobs.tried[u] = << >>
             /\ dobs.logged[u] = 0
             /\ dobs.mail[u] # "jobs"
             /\ dobs.outcome[u] \notin Failures \cup {""}
                   => dobs.outcome[u] = "empty" /\ dobs.mail[u] = "nojobs"

C3_Witness ==
    /\ runs = 2 /\ pc = "exit" /\ ~dobs.log_failed /\ ~dobs.changed
    /\ dobs.prev["u1"].outcome = "sent"
    /\ dobs.prev["u1"].logged = Len(dobs.prev["u1"].tried)
    /\ dobs.prev["u1"].logged = 2
    /\ dobs.outcome["u1"] = "empty" /\ dobs.mail["u1"] = "nojobs"
    /\ Cardinality(LogsOf("u1")) = 2

\* the titles a user has chosen
TitlesOf(u) ==
    { job_titles_table[i].title :
        i \in { k \in 1..Len(job_titles_table) :
                   job_titles_table[k].user_id = u } }

\* the up-to-20 latest jobs with one of the user's titles, less those logged
ExpectedDigest(u) ==
    LET Matching[i \in 0..Len(jobs_table)] ==
            IF i = 0 THEN << >>
            ELSE IF jobs_table[i].search_title \in TitlesOf(u)
            THEN Append(Matching[i - 1], jobs_table[i])
            ELSE Matching[i - 1]
        latest == SortDesc(Matching[Len(jobs_table)])
        top == SubSeq(latest, 1, IF Len(latest) < 20 THEN Len(latest) ELSE 20)
        NotLogged[i \in 0..Len(top)] ==
            IF i = 0 THEN << >>
            ELSE IF \E k \in LogsOf(u) : email_logs[k].job_id = top[i].id
            THEN NotLogged[i - 1]
            ELSE Append(NotLogged[i - 1], top[i])
    IN  NotLogged[Len(top)]

\* C4: for every user with titles the store answers the jobs query, and
\* new_jobs is the up-to-20 latest matching jobs less the logged ones, in
\* order of recency.
C4_DigestContents ==
    /\ \A u \in Users : dobs.outcome[u] # "failed:query"
    /\ pc = "d_send" => new_jobs = ExpectedDigest(users[ui])

\* C5: an email_logs row is written only for a job of a jobs email whose
\* send returned success; a user whose send failed has no row written in
\* that run and one entry in errors; and the next run, with no job stored in
\* between, tries the same jobs for that user.
C5_LogOnlyAfterSend ==
    /\ [][email_logs' # email_logs =>
            /\ pc = "d_log"
            /\ dobs.mail[users[ui]] = "jobs"
            /\ <<users[ui], new_jobs[li].id>> \in dobs.mailed
            /\ email_logs' = Append(email_logs,
                                [user_id |-> users[ui],
                                 job_id |-> new_jobs[li].id])]_vars
    /\ [](\A u \in Users :
            dobs.outcome[u] \in SendFailed
               => dobs.logged[u] = 0 /\ ErrorsFor(u) = 1)
    /\ []((pc = "d_send" /\ dobs.prev[users[ui]].outcome \in SendFailed
              /\ ~dobs.changed)
            => dobs.tried[users[ui]] = dobs.prev[users[ui]].tried)

C5_Witness ==
    /\ runs = 2 /\ pc = "d_send" /\ ~dobs.changed
    /\ dobs.prev[users[ui]].outcome = "failed:send"
    /\ Len(dobs.prev[users[ui]].tried) = 2
    /\ dobs.tried[users[ui]] = dobs.prev[users[ui]].tried
    /\ LogsOf(users[ui]) = {}

\* C6: a user without a job_titles row, whose titles request was answered,
\* is skipped: no email, no email_logs row, no entry in errors, and the run
\* never goes past the titles request for that user.
C6_EmptyPreferenceSkip ==
    \A u \in Users :
        (TitlesOf(u) = {} /\ dobs.outcome[u] # "failed:titles")
        => /\ dobs.mail[u] = "" /\ dobs.logged[u] = 0 /\ LogsOf(u) = {}
           /\ dobs.tried[u] = << >>
           /\ ErrorsFor(u) = 0
           /\ dobs.outcome[u] \in {"", "skipped"}
           /\ pc \in {"d_sent", "d_jobs", "d_send", "d_log"} => users[ui] # u

C6_Witness ==
    /\ pc = "exit" /\ exit_code = 0
    /\ TitlesOf("u2") = {} /\ dobs.outcome["u2"] = "skipped"
    /\ dobs.outcome["u1"] = "sent"
    /\ errors = << >> /\ emails_sent = 1 /\ no_jobs_emails = 0

DigestExited == script = "digest" /\ pc = "exit"

\* C9, as stated: the digest script exits with code 0 whatever happens.
C9_AlwaysExitsZero == DigestExited => exit_code = 0

\* C9, amended: the digest script exits with code 1 exactly when a store
\* credential is missing or the request for the subscribers fails, and with
\* code 0 otherwise, whatever happens to the single users.
C9_ExitCode ==
    DigestExited =>
        /\ exit_code \in {0, 1}
        /\ exit_code = 1 <=> (~HasStore \/ dobs.fetch_failed)
        /\ exit_code = 0 <=> dobs.listed

C9_Witness ==
    /\ DigestExited /\ exit_code = 0
    /\ "RESEND_API_KEY" \notin env
    /\ errors = <<"u1", "u2">>

\* C10: every user of the list is handled, whatever happened to the users
\* before: a user whose handling failed has exactly one entry in errors,
\* any other user has none.
C10_FailureIsolation ==
    dobs.listed =>
        \A k \in 1..Len(users) :
            (k < ui \/ pc \in {"d_summary", "exit"})
            => /\ dobs.outcome[users[k]] # ""
               /\ ErrorsFor(users[k])
                     = IF dobs.outcome[users[k]] \in Failures THEN 1 ELSE 0

C10_Witness ==
    /\ pc = "exit" /\ dobs.listed
    /\ dobs.outcome["u1"] \in Failures \ {"failed:send"}
    /\ dobs.outcome["u2"] = "sent"
    /\ errors = <<"u1">> /\ emails_sent = 1

(***************************************************************************)
(* Errors of the runner and of the store during ingestion                  *)
(***************************************************************************)
\* C11: an error raised by a status poll or by the retrieval of the results
\* of one title is caught inside run_apify_actor: it does not end the run,
\* so the remaining titles are still submitted and the results gathered so
\* far are still returned.
C11_PollErrorIsolated ==
    obs.raised \in {"poll", "retrieve"} => pc # "exit" /\ exit_code # 1

\* C12: a scrape submission that fails ends the whole run: the failed title
\* is the last one submitted, no job is upserted in that run (those
\* retrieved for earlier titles included) and the script exits with code 1.
C12_SubmissionAborts ==
    obs.raised = "submit"
    => /\ pc = "exit" /\ exit_code = 1
       /\ Len(obs.submitted) = ti
       /\ si = 0 /\ saved_count = 0 /\ obs.upsert = "" /\ ~obs.changed

C12_Witness ==
    /\ obs.raised = "submit" /\ pc = "exit" /\ exit_code = 1
    /\ ti = 2 /\ Len(obs.submitted) = 2 /\ Len(results) = 2
    /\ runs = 1 /\ jobs_table = << >>

\* C13: an answer of the store that is neither 200/201 nor 409 skips that
\* one job: nothing is raised, the loop goes on to every later job, and
\* the count returned is the number of answers 200 or 201 (a 409 is neither
\* counted nor an error).
C13_WriteErrorSkipsOneJob ==
    /\ obs.upsert \in {"409", "500"} => obs.raised = "" /\ exit_code # 1
    /\ pc = "save" => saved_count = obs.counted /\ obs.answers = si - 1
    /\ SaveLoopDone => obs.answers = Len(results)

C13_Witness ==
    /\ SaveLoopDone /\ Len(results) >= 2
    /\ obs.skipped = 1 /\ obs.upsert = "201"
    /\ saved_count = 1 /\ obs.counted = 1

(***************************************************************************)
(* Credentials                                                             *)
(***************************************************************************)
\* the credentials each script needs for a complete run
IngestCredentials == {"APIFY_API_TOKEN", "SUPABASE_URL", "SUPABASE_KEY"}
DigestCredentials == {"SUPABASE_URL", "SUPABASE_KEY", "RESEND_API_KEY"}

\* C14: a run that lacks one of its credentials makes no request at all (no
\* titles request to the store, no scrape submission, no subscribers
\* request) and ends with exit code 1.
C14_ConfigAbortsFirst ==
    /\ (script \in Sources /\ ~(IngestCredentials \subseteq env))
       => /\ obs.submitted = << >>
          /\ argv = << >> => job_titles = << >>
          /\ pc = "exit" => exit_code = 1
    /\ (script = "digest" /\ ~(DigestCredentials \subseteq env))
       => /\ ~dobs.listed
          /\ pc = "exit" => exit_code = 1

(***************************************************************************)
(* Titles                                                                  *)
(***************************************************************************)
\* C15: within one ingestion run no title is submitted to the runner more
\* than once, whether the titles come from the command line or the store.
C15_TitlesDeduplicated ==
    \A i, j \in 1..Len(obs.submitted) :
        obs.submitted[i] = obs.submitted[j] => i = j

(***************************************************************************)
(* The fields of db_job                                                    *)
(***************************************************************************)
\* the value of the first of the candidate keys that the listing has with a
\* value that is not null, the empty string when it has none
RECURSIVE FirstPresent(_, _)
FirstPresent(job, keys) ==
    IF keys = << >> THEN EmptyStr
    ELSE IF Head(keys) \in DOMAIN job /\ job[Head(keys)] # None
    THEN job[Head(keys)]
    ELSE FirstPresent(job, Tail(keys))

\* the id the source gave the listing: jobId, else id, else for monster the
\* last path segment of jobUrl
NativeId(src, raw) ==
    IF FirstPresent(raw, <<"jobId", "id">>) # EmptyStr \/ src # "monster"
    THEN FirstPresent(raw, <<"jobId", "id">>)
    ELSE S(LastSegment(FirstPresent(raw, <<"jobUrl">>).s))

\* C16: two listings get the same external_id only if they come from the
\* same source and have the same native id.
C16_ExternalIdUnique ==
    \A i, j \in 1..Len(obs.ids) :
        ( /\ ~obs.ids[i].raised /\ ~obs.ids[j].raised
          /\ obs.ids[i].external_id = obs.ids[j].external_id )
        => /\ obs.ids[i].source = obs.ids[j].source
           /\ NativeId(obs.ids[i].source, obs.ids[i].raw)
                 = NativeId(obs.ids[j].source, obs.ids[j].raw)

\* the description the store is to get for a raw listing
ExpectedDescription(raw) ==
    IF "description" \notin DOMAIN raw \/ raw.description = None
    THEN EmptyStr
    ELSE S(SubSeq(raw.description.s, 1,
                  IF Len(raw.description.s) < 5000
                  THEN Len(raw.description.s) ELSE 5000))

\* C17: the description of db_job is the first min(len, 5000) characters of
\* the raw description, the empty string when that is absent or null, and
\* the job is submitted to the store whatever the length.
C17_DescriptionTruncated ==
    db_job # None
    => /\ db_job.description = ExpectedDescription(results[1])
       /\ obs.answers = 1 \/ obs.raised = "upsert request"

C17_Witness ==
    /\ db_job # None
    /\ results[1] = Listing({"jobId"}, {})
                        @@ ("description" :> Description(5001))
    /\ Len(db_job.description.s) = 5000
    /\ obs.upsert = "201" /\ saved_count = 1 /\ Len(jobs_table) = 1

\* C18: a field of db_job with several candidate keys gets the value of the
\* first candidate the listing has with a value that is not null, and the
\* empty string only when no candidate has one.
C18_FirstNonNullCandidate ==
    pc = "transformed"
    => /\ db_job.url = FirstPresent(results[si], <<"jobUrl", "url">>)
       /\ script = "monster"
             => /\ db_job.title
                      = FirstPresent(results[si], <<"jobTitle", "title">>)
                /\ db_job.company
                      = FirstPresent(results[si], <<"companyName", "company">>)
       /\ script = "linkedin"
             => db_job.external_id
                   = S(LinkedinPrefix
                         \o Format(FirstPresent(results[si], <<"jobId", "id">>)))

(***************************************************************************)
(* The aggregate of run_apify_actor                                        *)
(***************************************************************************)
\* new is one of the runner's collections, every record tagged with title
IsTaggedCollection(new, title) ==
    \E jobs \in Datasets :
        /\ Len(new) = Len(jobs)
        /\ \A k \in 1..Len(jobs) :
              /\ DOMAIN new[k] = DOMAIN jobs[k] \cup {"search_title"}
              /\ new[k].search_title = title
              /\ \A f \in DOMAIN jobs[k] \ {"search_title"} :
                    new[k][f] = jobs[k][f]

\* C19: results only grows by the collection of the current title, tagged
\* with that title and appended at the end, and only when the title's last
\* status is SUCCEEDED; for a title that ends with any other status no
\* retrieval is made and results stays as it is.
C19_AggregateOfSucceeded ==
    /\ [](pc = "retrieve" => status = "SUCCEEDED")
    /\ [][(results' # results /\ runs' = runs)
            => /\ pc = "retrieve" /\ status = "SUCCEEDED"
               /\ Len(results') > Len(results)
               /\ SubSeq(results', 1, Len(results)) = results
               /\ IsTaggedCollection(
                      SubSeq(results', Len(results) + 1, Len(results')),
                      job_titles[ti])
               /\ ti' = ti + 1]_vars
    /\ [][obs'.retrievals > obs.retrievals
            => pc = "retrieve" /\ status = "SUCCEEDED"]_vars
    /\ [][(pc = "poll" /\ pc' # "poll" /\ pc' # "exit"
             /\ status # "SUCCEEDED")
            => /\ results' = results /\ obs'.retrievals = 0
               /\ pc' = "submit" /\ ti' = ti + 1]_vars

C19_Witness ==
    /\ pc = "submit" /\ ti = 3 /\ runs = 1
    /\ job_titles = <<TitleDE, TitlePM>>
    /\ Len(results) = 2
    /\ \A k \in 1..Len(results) : results[k].search_title = TitlePM
    /\ status = "SUCCEEDED" /\ obs.retrievals = 1

(***************************************************************************)
(* The email_logs writes of a digest                                       *)
(***************************************************************************)
\* C20: a failed email_logs write, refused or raising, neither stops the
\* writes for the remaining jobs of the digest nor makes the user's outcome
\* a failure: a user whose jobs email went out is on the way to the outcome
\* sent, or has it, and has no entry in errors.
C20_LogFireAndForget ==
    \A u \in Users :
        dobs.mail[u] = "jobs"
        => /\ dobs.outcome[u] \in {"", "sent"}
           /\ ErrorsFor(u) = 0

(***************************************************************************)
(* The counters of a digest run                                            *)
(***************************************************************************)
\* the users of this run whose outcome is one of a set
UsersWith(outcomes) ==
    { k \in 1..Len(users) : dobs.outcome[users[k]] \in outcomes }

\* C23: when a digest run that fetched its subscribers has reached the
\* summary, every subscriber has exactly one outcome: skipped for want of
\* titles, counted in emails_sent, counted in no_jobs_emails, or listed once
\* in errors; so emails_sent + no_jobs_emails + len(errors) + the number
\* skipped is the number of subscribers fetched.
C23_OneOutcomeEach ==
    (script = "digest" /\ dobs.listed /\ pc \in {"d_summary", "exit"})
    => /\ \A k \in 1..Len(users) :
              /\ dobs.outcome[users[k]]
                     \in {"skipped", "sent", "empty"} \cup Failures
              /\ ErrorsFor(users[k])
                     = IF dobs.outcome[users[k]] \in Failures THEN 1 ELSE 0
       /\ emails_sent = Cardinality(UsersWith({"sent"}))
       /\ no_jobs_emails = Cardinality(UsersWith({"empty"}))
       /\ Len(errors) = Cardinality(UsersWith(Failures))
       /\ emails_sent + no_jobs_emails + Len(errors)
              + Cardinality(UsersWith({"skipped"})) = Len(users)

C23_Witness ==
    /\ script = "digest" /\ dobs.listed /\ pc = "d_summary"
    /\ Len(users) = 2
    /\ dobs.outcome["u1"] = "failed:log" /\ dobs.outcome["u2"] = "sent"
    /\ emails_sent = 1 /\ no_jobs_emails = 0 /\ errors = <<"u1">>

(***************************************************************************)
(* The digest against a store that holds more than twenty matching jobs    *)
(***************************************************************************)
\* rows of the jobs table when the digest runs
MaxPool == 22

\* a title that closes the list of the filter and opens a URL fragment
TitleCut == S(<<"P", "M", "\"", ")", "#">>)

\* the jobs table after ingestion runs: the latest row was scraped for PM,
\* the others for DE
Pool(n) ==
    [ i \in 1..n |->
        [ id |-> i,
          scraped_at |-> i,
          external_id |->
              S(LinkedinPrefix \o <<DigitChar(i \div 10), DigitChar(i % 10)>>),
          search_title |-> IF i = n THEN TitlePM ELSE TitleDE ] ]

\* email_logs after earlier digests sent the user the k latest DE jobs of a
\* table of n rows
LoggedLatest(user, n, k) ==
    [ i \in 1..k |-> [user_id |-> user, job_id |-> n - i] ]

WindowTitleTables ==
    { <<[user_id |-> "u1", title |-> TitleDE],
        [user_id |-> "u2", title |-> TitleDE],
        [user_id |-> "u2", title |-> TitlePM]>>,
      <<[user_id |-> "u1", title |-> TitleDE],
        [user_id |-> "u2", title |-> TitleDE],
        [user_id |-> "u2", title |-> TitleCut]>> }

InitWindow ==
    /\ env = Credentials
    /\ \E n \in {MaxPool - 1, MaxPool} :
          /\ jobs_table = Pool(n)
          /\ \E k \in {0, 20} : email_logs = LoggedLatest("u1", n, k)
    /\ job_titles_table \in WindowTitleTables
    /\ script = "digest"
    /\ argv = << >>
    /\ pc = "d_main"
    /\ exit_code = -1
    /\ runs = 1
    /\ job_titles = << >> /\ ti = 0 /\ status = "" /\ waited = 0
    /\ results = << >> /\ si = 0 /\ saved_count = 0
    /\ db_job = None
    /\ obs = NoObs
    /\ DigestIdle
    /\ peer = NoPeer

\* the digest script, run after run, with no ingestion in between
NextWindow ==
    \/ DigestStart \/ FetchTitles \/ FetchSent \/ FetchJobs \/ SendEmail
    \/ WriteLog \/ LogsDone \/ Summary \/ DigestAgain

SpecWindow == InitWindow /\ [][NextWindow]_vars

\* the stored jobs with one of the user's titles that fewer than twenty
\* jobs with one of the user's titles are later than
LatestMatching(u) ==
    LET matching == { i \in 1..Len(jobs_table) :
                         jobs_table[i].search_title \in TitlesOf(u) }
    IN  { jobs_table[i] :
            i \in { m \in matching :
                      Cardinality({ l \in matching :
                          jobs_table[l].scraped_at > jobs_table[m].scraped_at })
                          < 20 } }

Logged(u, job) == \E k \in LogsOf(u) : email_logs[k].job_id = job.id

\* C22: the jobs of every digest are at most 20 and are among the 20 latest
\* stored jobs with one of the user's titles; and a user whose 20 latest
\* matching jobs are all in email_logs is tried no job and, when the send
\* succeeds, gets the "no jobs" email, whatever older matching jobs were
\* never sent.
C22_WindowOfTwenty ==
    /\ pc \in {"d_send", "d_log"}
          => /\ Len(new_jobs) <= 20
             /\ \A k \in 1..Len(new_jobs) :
                    new_jobs[k] \in LatestMatching(users[ui])
    /\ (pc = "d_send"
          /\ \A job \in LatestMatching(users[ui]) : Logged(users[ui], job))
          => new_jobs = << >>
    /\ \A u \in Users :
          (dobs.tried[u] = << >>
             /\ dobs.outcome[u] \notin Failures \cup {"", "skipped"})
          => dobs.outcome[u] = "empty" /\ dobs.mail[u] = "nojobs"

(***************************************************************************)
(* Two ingestion processes that save to one store at the same time         *)
(***************************************************************************)
\* listings in the batch of one process
MaxBatch == 2

\* the batches a process may hold when it calls save_to_supabase: listings
\* the runner returned, tagged with the title they were scraped for
Batches(title) ==
    { b \in SeqsUpTo({Tagged(RawA1, title), Tagged(RawB2, title)}, MaxBatch) :
        b # << >> }

\* both processes have scraped and are about to save their first job
InitConcurrent ==
    /\ env = Credentials
    /\ jobs_table = << >> /\ job_titles_table = << >> /\ email_logs = << >>
    /\ script \in Sources
    /\ argv = << >>
    /\ pc = "save"
    /\ exit_code = -1
    /\ runs = 1
    /\ job_titles = << >> /\ ti = 0 /\ status = "" /\ waited = 0
    /\ results \in Batches(TitleDE)
    /\ si = 1 /\ saved_count = 0
    /\ db_job = None
    /\ obs = NoObs
    /\ DigestIdle
    /\ \E src \in Sources, batch \in Batches(TitlePM) :
          peer = [NoPeer EXCEPT !.script = src, !.pc = "save",
                                !.results = batch, !.si = 1]

\* save_to_supabase in the second process: one turn of the for loop
PeerSaveJob ==
    /\ peer.pc = "save" /\ peer.si <= Len(peer.results)
    /\ \/ /\ TransformRaises(peer.script, peer.results[peer.si])
          /\ peer' = [peer EXCEPT !.pc = "exit", !.exit_code = 1,
                                  !.raised = "AttributeError"]
          /\ UNCHANGED jobs_table
       \/ /\ ~TransformRaises(peer.script, peer.results[peer.si])
          /\ LET job == Transform(peer.script, peer.results[peer.si])
             IN  \/ \* requests.post raises: no answer from the store
                    /\ peer' = [peer EXCEPT !.pc = "exit", !.exit_code = 1,
                                            !.raised = "upsert request"]
                    /\ UNCHANGED jobs_table
                 \/ \E answer \in StoreUpsert(jobs_table, job, Prefer) :
                      LET after == AfterResponse(answer.status_code,
                                                 peer.saved_count)
                          seen == [peer EXCEPT
                                     !.saved_count = after.saved_count,
                                     !.upsert =
                                         StatusName(answer.status_code),
                                     !.answers = @ + 1,
                                     !.counted =
                                         IF answer.status_code \in {200, 201}
                                         THEN @ + 1 ELSE @,
                                     !.skipped =
                                         IF answer.status_code
                                                \in {200, 201, 409}
                                         THEN @ ELSE @ + 1]
                      IN  /\ jobs_table' = answer.table
                          /\ peer' = IF after.raises
                                     THEN [seen EXCEPT !.pc = "exit",
                                                       !.exit_code = 1,
                                                       !.raised = "HTTPError"]
                                     ELSE [seen EXCEPT !.si = @ + 1]
    /\ UNCHANGED <<digestVars, ingestVars, env, job_titles_table, email_logs,
                   script, pc, exit_code, runs>>

\* save_to_supabase returns in the second process; its main ends
PeerSaveReturn ==
    /\ peer.pc = "save" /\ peer.si > Len(peer.results)
    /\ peer' = [peer EXCEPT !.pc = "exit", !.exit_code = 0]
    /\ UNCHANGED <<digestVars, ingestVars, env, storeVars, script, pc,
                   exit_code, runs>>

\* the two save loops, their requests to the store interleaved in any order
NextConcurrent == SaveJob \/ SaveReturn \/ PeerSaveJob \/ PeerSaveReturn

SpecConcurrent == InitConcurrent /\ [][NextConcurrent]_vars

\* the external_ids of the jobs in the two batches
BatchIds ==
    { Transform(script, results[k]).external_id : k \in 1..Len(results) }
        \cup { Transform(peer.script, peer.results[k]).external_id :
                  k \in 1..Len(peer.results) }

\* C21: two processes upsert overlapping external_ids with their requests
\* interleaved in any order and no coordination but the store's atomic
\* merge on conflict: no external_id is ever stored in more than one row,
\* neither process ends with an error unless one of its requests got no
\* answer, and when both have returned with no upsert answered by a server
\* error every external_id of the two batches is stored in exactly one row.
C21_ConcurrentUpserts ==
    /\ \A i \in 1..Len(jobs_table) :
          Cardinality(RowsWith(jobs_table[i].external_id)) = 1
    /\ exit_code = 1 => obs.raised = "upsert request"
    /\ peer.exit_code = 1 => peer.raised = "upsert request"
    /\ (exit_code = 0 /\ peer.exit_code = 0
          /\ obs.skipped = 0 /\ peer.skipped = 0)
          => \A id \in BatchIds : Cardinality(RowsWith(id)) = 1

\* both processes saved the same two jobs, in opposite orders, every upsert
\* was accepted, and the store holds one row for each
C21_Witness ==
    /\ script = "linkedin" /\ peer.script = "linkedin"
    /\ results = <<Tagged(RawA1, TitleDE), Tagged(RawB2, TitleDE)>>
    /\ peer.results = <<Tagged(RawB2, TitlePM), Tagged(RawA1, TitlePM)>>
    /\ pc = "exit" /\ exit_code = 0
    /\ peer.pc = "exit" /\ peer.exit_code = 0
    /\ obs.counted = 2 /\ peer.counted = 2
    /\ Len(jobs_table) = 2
    /\ jobs_table[1].search_title = TitlePM
    /\ jobs_table[2].search_title = TitleDE

=============================================================================
